---- MODULE Spec2Model ----
(***************************************************************************)
(* ginrollbar.LogRequests: a gin middleware that reports the errors a      *)
(* request accumulated (c.Errors) and the panic that ended it to Rollbar,  *)
(* then re-raises the panic.  One behaviour of the model is one request    *)
(* travelling through the chain                                            *)
(*     outer recovery  ->  LogRequests  ->  downstream handlers            *)
(* exactly as the repository's test assembles it.                          *)
(***************************************************************************)
EXTENDS Integers, Sequences, FiniteSets, TLC

VARIABLES
    onlyPanics,       \* LogRequests parameter
    printStack,       \* LogRequests parameter
    requestIdCtxKey,  \* LogRequests parameter
    Request,          \* c.Request
    Errors,           \* c.Errors: sequence of gin.Error {Err, Meta}
    status,           \* response status written so far
    aborted,          \* c.IsAborted()
    header,           \* c.Writer.Header()
    pc,               \* position of the request in the chain
    panicking,        \* the panic value in flight, or NoPanic
    r,                \* what recover() returned in the deferred function
    extraData,        \* reference to the map made at line 27 (0: not made)
    extraPanicData,   \* reference to the map made at line 44 (0: not made)
    itemIdx,          \* position of the range loop of line 32 in c.Errors
    maps,             \* the heap of map[string]interface{} objects, by reference
    calls,            \* the invocations of RollbarError / RollbarCritical, in order
    stackPrinted,     \* debug.PrintStack() has run
    completed,        \* the context as the downstream handlers left it
    outerErr          \* what the outer middleware's recover() returned

vars == << onlyPanics, printStack, requestIdCtxKey, Request, Errors, status,
           aborted, header, pc, panicking, r, extraData, extraPanicData,
           itemIdx, maps, calls, stackPrinted, completed, outerErr >>

----------------------------------------------------------------------------
(* Bounds of the model *)

MaxErrors == 2

----------------------------------------------------------------------------
(* Program constants *)

StackSkip == 3
StatusOK == 200
StatusBadRequest == 400
StatusInternalServerError == 500

----------------------------------------------------------------------------
(* Go values of type interface{}: nil, strings, ints and errors *)

NilValue == [kind |-> "nil", str |-> "", num |-> 0]

StringValue(s) == [kind |-> "string", str |-> s, num |-> 0]

IntValue(n) == [kind |-> "int", str |-> "", num |-> n]

\* errors.New(msg): an error whose Error() is msg
ErrorsNew(msg) == [kind |-> "error", str |-> msg, num |-> 0]

\* the absence of a panic in flight (not a Go value)
NoPanic == [kind |-> "none", str |-> "", num |-> 0]

\* panic(nil) raises a *runtime.PanicNilError, so that recover() returns nil
\* only when no panic is in flight
PanicNilError ==
    ErrorsNew("panic called with nil argument (obsolete: use runtime.PanicNilError)")

GoPanic(v) == IF v = NilValue THEN PanicNilError ELSE v

DigitChars == << "0", "1", "2", "3", "4", "5", "6", "7", "8", "9" >>

RECURSIVE NatToString(_)
NatToString(n) ==
    IF n < 10 THEN DigitChars[n + 1]
    ELSE NatToString(n \div 10) \o DigitChars[(n % 10) + 1]

IntToString(n) == IF n < 0 THEN "-" \o NatToString(0 - n) ELSE NatToString(n)

\* fmt.Sprint of one operand
Sprint(v) ==
    CASE v.kind = "nil"    -> "<nil>"
      [] v.kind = "string" -> v.str
      [] v.kind = "int"    -> IntToString(v.num)
      [] v.kind = "error"  -> v.str

----------------------------------------------------------------------------
(* The inputs a request draws from *)

RequestURIs == { "/", "/users/7" }

HeaderKeys == { "X-Request-Id" }

HeaderValues == { "", "req-1", "req-2" }

RequestIdCtxKeys == { "", "X-Request-Id" }

ErrorEntries ==
    { [Err |-> ErrorsNew("test error"),  Meta |-> StringValue("some data")],
      [Err |-> ErrorsNew("other error"), Meta |-> IntValue(42)],
      [Err |-> ErrorsNew("other error"), Meta |-> StringValue("42")],
      [Err |-> ErrorsNew("test error"),  Meta |-> NilValue] }

PanicValues ==
    { StringValue("occurs panic"), StringValue("42"), IntValue(42),
      ErrorsNew("boom"), NilValue }

StatusCodes == { StatusOK, StatusBadRequest }

----------------------------------------------------------------------------
(* The initial state: the router is built, the request has arrived *)

Init ==
    /\ onlyPanics \in BOOLEAN
    /\ printStack \in BOOLEAN
    /\ requestIdCtxKey \in RequestIdCtxKeys
    /\ Request \in [RequestURI : RequestURIs]
    /\ Errors = << >>
    /\ status = StatusOK
    /\ aborted = FALSE
    /\ header \in [HeaderKeys -> HeaderValues]
    /\ pc = "start"
    /\ panicking = NoPanic
    /\ r = NilValue
    /\ extraData = 0
    /\ extraPanicData = 0
    /\ itemIdx = 0
    /\ maps = << >>
    /\ calls = << >>
    /\ stackPrinted = FALSE
    /\ completed = [how |-> "none", status |-> StatusOK, aborted |-> FALSE,
                    Errors |-> << >>, panic |-> NoPanic]
    /\ outerErr = NilValue

----------------------------------------------------------------------------
(* gin.Context as LogRequests uses it *)

\* c.Writer.Header().Get(key): "" when the header is not set
HeaderGet(key) == IF key \in DOMAIN header THEN header[key] ELSE ""

\* the context as the downstream handlers leave it
Snapshot(how, v) ==
    [how |-> how, status |-> status, aborted |-> aborted, Errors |-> Errors,
     panic |-> v]

----------------------------------------------------------------------------
(* The pieces of the deferred function of LogRequests *)

\* a bug to guard against: onlyPanics is ignored
LogErrorsIgnoringOnlyPanics == Len(Errors) > 0

\* line 26: the condition under which accumulated errors are logged
LogErrors == ~onlyPanics /\ Len(Errors) > 0

\* a bug to guard against: the request id is left out when the header is empty
WithRequestIdIfSet(bag) ==
    IF HeaderGet(requestIdCtxKey) # ""
    THEN ("request_id" :> HeaderGet(requestIdCtxKey)) @@ bag
    ELSE bag

\* lines 29-31 and 46-48: the optional request id
WithRequestId(bag) ==
    IF requestIdCtxKey # ""
    THEN ("request_id" :> HeaderGet(requestIdCtxKey)) @@ bag
    ELSE bag

\* lines 27-31: the map the error reports carry
NewExtraData == WithRequestId("endpoint" :> Request.RequestURI)

\* lines 44-48: the map the critical report carries
NewExtraPanicData == WithRequestId("endpoint" :> Request.RequestURI)

\* a bug to guard against: "meta" is written only when the map has none yet
SetMetaOnce(bag, item) == bag @@ ("meta" :> Sprint(item.Meta))

\* line 33: extraData["meta"] = fmt.Sprint(item.Meta)
SetMeta(bag, item) == ("meta" :> Sprint(item.Meta)) @@ bag

\* line 34: RollbarError(item.Err, c.Request, extraData); data is the content
\* of the referenced map when the call is made
ErrorCall(item, ref, data) ==
    [fn |-> "RollbarError", err |-> item.Err, request |-> Request,
     ints |-> << >>, bag |-> ref, data |-> data]

\* a bug to guard against: the panic value is taken to be a string
CriticalCallOfString(rv, ref, data) ==
    [fn |-> "RollbarCritical", err |-> ErrorsNew(rv.str), request |-> Request,
     ints |-> << StackSkip >>, bag |-> ref, data |-> data]

\* lines 62-67: RollbarCritical(errors.New(fmt.Sprint(r)), c.Request, 3, extraPanicData)
CriticalCall(rv, ref, data) ==
    [fn |-> "RollbarCritical", err |-> ErrorsNew(Sprint(rv)), request |-> Request,
     ints |-> << StackSkip >>, bag |-> ref, data |-> data]

\* line 39: recover() returns the panic value in flight, nil when there is none
RecoverValue == IF panicking = NoPanic THEN NilValue ELSE panicking

\* a bug to guard against: the nil check on recover() is dropped
RecoveredAlways(rv) == TRUE

\* line 39: r != nil
Recovered(rv) == rv # NilValue

\* a bug to guard against: panicking again with the error that was reported
RepanicWrapped == ErrorsNew(Sprint(r))

\* line 68: the value LogRequests panics with again
RepanicValue == r

----------------------------------------------------------------------------
(* LogRequests runs the rest of the chain *)

\* line 72 (the deferred function of line 24 is registered first)
CallNext ==
    /\ pc = "start"
    /\ pc' = "handler"
    /\ UNCHANGED << onlyPanics, printStack, requestIdCtxKey, Request, Errors,
                    status, aborted, header, panicking, r, extraData,
                    extraPanicData, itemIdx, maps, calls, stackPrinted,
                    completed, outerErr >>

----------------------------------------------------------------------------
(* The downstream handlers *)

\* c.Error(e)
HandlerError(e) ==
    /\ pc = "handler"
    /\ Len(Errors) < MaxErrors
    /\ Errors' = Append(Errors, e)
    /\ UNCHANGED << onlyPanics, printStack, requestIdCtxKey, Request, status,
                    aborted, header, pc, panicking, r, extraData,
                    extraPanicData, itemIdx, maps, calls, stackPrinted,
                    completed, outerErr >>

\* c.Status(code)
HandlerStatus(code) ==
    /\ pc = "handler"
    /\ status' = code
    /\ UNCHANGED << onlyPanics, printStack, requestIdCtxKey, Request, Errors,
                    aborted, header, pc, panicking, r, extraData,
                    extraPanicData, itemIdx, maps, calls, stackPrinted,
                    completed, outerErr >>

\* c.AbortWithStatus(code)
HandlerAbortWithStatus(code) ==
    /\ pc = "handler"
    /\ status' = code
    /\ aborted' = TRUE
    /\ UNCHANGED << onlyPanics, printStack, requestIdCtxKey, Request, Errors,
                    header, pc, panicking, r, extraData, extraPanicData,
                    itemIdx, maps, calls, stackPrinted, completed, outerErr >>

\* c.Writer.Header().Set(k, v)
HandlerSetHeader(k, v) ==
    /\ pc = "handler"
    /\ header' = [header EXCEPT ![k] = v]
    /\ UNCHANGED << onlyPanics, printStack, requestIdCtxKey, Request, Errors,
                    status, aborted, pc, panicking, r, extraData,
                    extraPanicData, itemIdx, maps, calls, stackPrinted,
                    completed, outerErr >>

\* a bug to guard against: the reporting block is not deferred, so that it is
\* over before the handlers run
HandlerReturnWithoutDefer ==
    /\ pc = "handler"
    /\ pc' = "outer"
    /\ completed' = Snapshot(IF aborted THEN "abort" ELSE "return", NoPanic)
    /\ UNCHANGED << onlyPanics, printStack, requestIdCtxKey, Request, Errors,
                    status, aborted, header, panicking, r, extraData,
                    extraPanicData, itemIdx, maps, calls, stackPrinted,
                    outerErr >>

\* the handlers return; c.Next() returns and the deferred function runs
HandlerReturn ==
    /\ pc = "handler"
    /\ pc' = "defer"
    /\ completed' = Snapshot(IF aborted THEN "abort" ELSE "return", NoPanic)
    /\ UNCHANGED << onlyPanics, printStack, requestIdCtxKey, Request, Errors,
                    status, aborted, header, panicking, r, extraData,
                    extraPanicData, itemIdx, maps, calls, stackPrinted,
                    outerErr >>

\* a handler panics; c.Next() unwinds and the deferred function runs
HandlerPanic(v) ==
    /\ pc = "handler"
    /\ pc' = "defer"
    /\ panicking' = GoPanic(v)
    /\ completed' = Snapshot("panic", GoPanic(v))
    /\ UNCHANGED << onlyPanics, printStack, requestIdCtxKey, Request, Errors,
                    status, aborted, header, r, extraData, extraPanicData,
                    itemIdx, maps, calls, stackPrinted, outerErr >>

----------------------------------------------------------------------------
(* The deferred function of LogRequests, statement by statement *)

\* a bug to guard against: the errors are logged only when c.Next() returns,
\* not when it unwinds
DeferLogErrorsUnlessPanicking ==
    /\ pc = "defer"
    /\ IF LogErrors /\ panicking = NoPanic
       THEN /\ maps' = Append(maps, NewExtraData)
            /\ extraData' = Len(maps) + 1
            /\ itemIdx' = 1
            /\ pc' = IF Len(Errors) >= 1 THEN "range" ELSE "recover"
       ELSE /\ pc' = "recover"
            /\ UNCHANGED << maps, extraData, itemIdx >>
    /\ UNCHANGED << onlyPanics, printStack, requestIdCtxKey, Request, Errors,
                    status, aborted, header, panicking, r, extraPanicData,
                    calls, stackPrinted, completed, outerErr >>

\* lines 26-31
DeferLogErrors ==
    /\ pc = "defer"
    /\ IF LogErrors
       THEN /\ maps' = Append(maps, NewExtraData)
            /\ extraData' = Len(maps) + 1
            /\ itemIdx' = 1
            /\ pc' = IF Len(Errors) >= 1 THEN "range" ELSE "recover"
       ELSE /\ pc' = "recover"
            /\ UNCHANGED << maps, extraData, itemIdx >>
    /\ UNCHANGED << onlyPanics, printStack, requestIdCtxKey, Request, Errors,
                    status, aborted, header, panicking, r, extraPanicData,
                    calls, stackPrinted, completed, outerErr >>

\* a bug to guard against: a logged error answers 500 and aborts the request
RangeErrorsAborting ==
    /\ pc = "range"
    /\ itemIdx <= Len(Errors)
    /\ maps' = [maps EXCEPT ![extraData] = SetMeta(@, Errors[itemIdx])]
    /\ calls' = Append(calls, ErrorCall(Errors[itemIdx], extraData, maps'[extraData]))
    /\ itemIdx' = itemIdx + 1
    /\ pc' = IF itemIdx' <= Len(Errors) THEN "range" ELSE "recover"
    /\ status' = StatusInternalServerError
    /\ aborted' = TRUE
    /\ UNCHANGED << onlyPanics, printStack, requestIdCtxKey, Request, Errors,
                    header, panicking, r, extraData, extraPanicData,
                    stackPrinted, completed, outerErr >>

\* lines 32-35: one iteration of the range loop
RangeErrors ==
    /\ pc = "range"
    /\ itemIdx <= Len(Errors)
    /\ maps' = [maps EXCEPT ![extraData] = SetMeta(@, Errors[itemIdx])]
    /\ calls' = Append(calls, ErrorCall(Errors[itemIdx], extraData, maps'[extraData]))
    /\ itemIdx' = itemIdx + 1
    /\ pc' = IF itemIdx' <= Len(Errors) THEN "range" ELSE "recover"
    /\ UNCHANGED << onlyPanics, printStack, requestIdCtxKey, Request, Errors,
                    status, aborted, header, panicking, r, extraData,
                    extraPanicData, stackPrinted, completed, outerErr >>

\* line 39
Recover ==
    /\ pc = "recover"
    /\ r' = RecoverValue
    /\ panicking' = NoPanic
    /\ pc' = IF Recovered(r') THEN "printStack" ELSE "outer"
    /\ UNCHANGED << onlyPanics, printStack, requestIdCtxKey, Request, Errors,
                    status, aborted, header, extraData, extraPanicData,
                    itemIdx, maps, calls, stackPrinted, completed, outerErr >>

\* lines 40-42
PrintStack ==
    /\ pc = "printStack"
    /\ stackPrinted' = printStack
    /\ pc' = "panicData"
    /\ UNCHANGED << onlyPanics, printStack, requestIdCtxKey, Request, Errors,
                    status, aborted, header, panicking, r, extraData,
                    extraPanicData, itemIdx, maps, calls, completed, outerErr >>

\* lines 44-48
MakePanicData ==
    /\ pc = "panicData"
    /\ maps' = Append(maps, NewExtraPanicData)
    /\ extraPanicData' = Len(maps) + 1
    /\ pc' = "critical"
    /\ UNCHANGED << onlyPanics, printStack, requestIdCtxKey, Request, Errors,
                    status, aborted, header, panicking, r, extraData, itemIdx,
                    calls, stackPrinted, completed, outerErr >>

\* lines 62-67
ReportCritical ==
    /\ pc = "critical"
    /\ calls' = Append(calls, CriticalCall(r, extraPanicData, maps[extraPanicData]))
    /\ pc' = "repanic"
    /\ UNCHANGED << onlyPanics, printStack, requestIdCtxKey, Request, Errors,
                    status, aborted, header, panicking, r, extraData,
                    extraPanicData, itemIdx, maps, stackPrinted, completed,
                    outerErr >>

\* line 68
Repanic ==
    /\ pc = "repanic"
    /\ panicking' = GoPanic(RepanicValue)
    /\ pc' = "outer"
    /\ UNCHANGED << onlyPanics, printStack, requestIdCtxKey, Request, Errors,
                    status, aborted, header, r, extraData, extraPanicData,
                    itemIdx, maps, calls, stackPrinted, completed, outerErr >>

----------------------------------------------------------------------------
(* The outer middleware: recovers and answers 500 *)

OuterRecover ==
    /\ pc = "outer"
    /\ outerErr' = RecoverValue
    /\ panicking' = NoPanic
    /\ IF outerErr' # NilValue
       THEN /\ status' = StatusInternalServerError
            /\ aborted' = TRUE
       ELSE UNCHANGED << status, aborted >>
    /\ pc' = "done"
    /\ UNCHANGED << onlyPanics, printStack, requestIdCtxKey, Request, Errors,
                    header, r, extraData, extraPanicData, itemIdx, maps, calls,
                    stackPrinted, completed >>

----------------------------------------------------------------------------

Next ==
    \/ CallNext
    \/ \E e \in ErrorEntries : HandlerError(e)
    \/ \E code \in StatusCodes : HandlerStatus(code)
    \/ \E code \in StatusCodes : HandlerAbortWithStatus(code)
    \/ \E k \in HeaderKeys, v \in HeaderValues : HandlerSetHeader(k, v)
    \/ HandlerReturn
    \/ \E v \in PanicValues : HandlerPanic(v)
    \/ DeferLogErrors
    \/ RangeErrors
    \/ Recover
    \/ PrintStack
    \/ MakePanicData
    \/ ReportCritical
    \/ Repanic
    \/ OuterRecover

Spec == Init /\ [][Next]_vars

----------------------------------------------------------------------------
(* What the properties speak of *)

IsError(c) == c.fn = "RollbarError"

IsCritical(c) == c.fn = "RollbarCritical"

ErrorCalls == SelectSeq(calls, IsError)

CriticalCalls == SelectSeq(calls, IsCritical)

Done == pc = "done"

Panicked == completed.how = "panic"

HandlersCompleted == completed.how # "none"

\* the deferred function is running or has run
InOrAfterDefer == pc \in { "defer", "range", "recover", "printStack", "panicData",
                           "critical", "repanic" }

----------------------------------------------------------------------------
\* C1: a request whose handlers panic gets exactly one RollbarCritical call,
\* made with an error whose message is the rendering of the panic value, the
\* request, the stack skip 3 and a map whose "endpoint" is the request path;
\* a request that does not panic gets none.
C1_OneCriticalPerPanic ==
    /\ Len(CriticalCalls) <= 1
    /\ ~Panicked => Len(CriticalCalls) = 0
    /\ (Panicked /\ pc \in { "repanic", "outer", "done" }) =>
          /\ Len(CriticalCalls) = 1
          /\ CriticalCalls[1].err.kind = "error"
          /\ CriticalCalls[1].err.str = Sprint(completed.panic)
          /\ CriticalCalls[1].request = Request
          /\ CriticalCalls[1].ints = << 3 >>
          /\ "endpoint" \in DOMAIN CriticalCalls[1].data
          /\ CriticalCalls[1].data["endpoint"] = Request.RequestURI

C1_Witness ==
    /\ Done
    /\ completed.panic = IntValue(42)
    /\ Len(Errors) = 2
    /\ Len(CriticalCalls) = 1
    /\ CriticalCalls[1].err.str = "42"

\* C2: with onlyPanics off and N accumulated errors, however the handlers
\* ended, exactly N RollbarError calls are made, in accumulation order, the
\* i-th with the i-th entry's Err, the request, and a map whose "endpoint" is
\* the request path and whose "meta" renders the i-th entry's Meta.
C2_OneErrorCallPerEntry ==
    (Done /\ ~onlyPanics) =>
        /\ Len(ErrorCalls) = Len(Errors)
        /\ \A i \in 1 .. Len(Errors) :
              /\ ErrorCalls[i].err = Errors[i].Err
              /\ ErrorCalls[i].request = Request
              /\ ErrorCalls[i].ints = << >>
              /\ { "endpoint", "meta" } \subseteq DOMAIN ErrorCalls[i].data
              /\ ErrorCalls[i].data["endpoint"] = Request.RequestURI
              /\ ErrorCalls[i].data["meta"] = Sprint(Errors[i].Meta)

C2_Witness ==
    /\ Done
    /\ ~onlyPanics
    /\ Len(Errors) = 2
    /\ Errors[1].Meta = StringValue("some data")
    /\ Errors[2].Meta = IntValue(42)
    /\ Len(ErrorCalls) = 2
    /\ ErrorCalls[1].data["meta"] = "some data"
    /\ ErrorCalls[2].data["meta"] = "42"

\* C3: with onlyPanics on no RollbarError call is ever made; without a panic
\* the status the handlers set is the final one, and with a panic the
\* critical report is still made.
C3_OnlyPanicsSuppressesErrors ==
    onlyPanics =>
        /\ Len(ErrorCalls) = 0
        /\ (Done /\ ~Panicked) => status = completed.status
        /\ (Done /\ Panicked) => Len(CriticalCalls) = 1

C3_Witness ==
    /\ Done
    /\ onlyPanics
    /\ Len(Errors) = 2
    /\ ~Panicked
    /\ status = StatusBadRequest
    /\ calls = << >>

\* C4: with onlyPanics off, errors accumulated and a panic, every
\* RollbarError call precedes the RollbarCritical call, and all N of them
\* have been made when the panic is reported.
C4_ErrorsBeforeCritical ==
    \A k \in 1 .. Len(calls) :
        IsCritical(calls[k]) =>
            /\ k = Len(calls)
            /\ \A j \in 1 .. (k - 1) : IsError(calls[j])
            /\ ~onlyPanics => k - 1 = Len(Errors)

C4_Witness ==
    /\ pc = "repanic"
    /\ ~onlyPanics
    /\ Len(Errors) = 2
    /\ Len(calls) = 3
    /\ IsError(calls[1])
    /\ IsError(calls[2])
    /\ IsCritical(calls[3])

\* C5: LogRequests panics again with the value it recovered, so that the
\* outer middleware recovers that same value; LogRequests itself leaves the
\* status and the abort state alone, and the outer middleware sets the final
\* status of a panicking request (500).
C5_RepanicsSameValue ==
    /\ InOrAfterDefer => (status = completed.status /\ aborted = completed.aborted)
    /\ (pc = "outer" /\ Panicked) => panicking = completed.panic
    /\ (pc = "outer" /\ ~Panicked) =>
          (panicking = NoPanic /\ status = completed.status
              /\ aborted = completed.aborted)
    /\ (Done /\ Panicked) =>
          /\ r = completed.panic
          /\ outerErr = completed.panic
          /\ status = StatusInternalServerError

C5_Witness ==
    /\ Done
    /\ completed.panic = IntValue(42)
    /\ completed.status = StatusBadRequest
    /\ Len(CriticalCalls) = 1
    /\ outerErr = IntValue(42)
    /\ status = StatusInternalServerError

\* C6: every report carries a map of its own: no two calls share a map, and
\* the map of the i-th RollbarError call still holds the i-th "meta" after
\* the later reports.
C6_FreshBagPerReport ==
    /\ \A i, j \in 1 .. Len(calls) : i # j => calls[i].bag # calls[j].bag
    /\ \A i \in 1 .. Len(calls) :
          IsError(calls[i]) => maps[calls[i].bag] = calls[i].data

\* C7: without a panic and without accumulated errors neither RollbarError
\* nor RollbarCritical is called, whatever onlyPanics is, and the status the
\* handlers set is the final one.
C7_QuietRequestReportsNothing ==
    (HandlersCompleted /\ ~Panicked /\ Errors = << >>) =>
        /\ calls = << >>
        /\ status = completed.status

C7_Witness ==
    /\ Done
    /\ ~Panicked
    /\ Errors = << >>
    /\ ~onlyPanics
    /\ status = StatusBadRequest
    /\ calls = << >>

\* C8: accumulated errors do not alter the control flow: without a panic,
\* reporting them leaves the status, the abort state and c.Errors as the
\* handlers left them and raises no panic; no critical report is made; a
\* request aborted with 400 ends with 400.
C8_ErrorsDoNotAlterControlFlow ==
    (HandlersCompleted /\ ~Panicked /\ Len(completed.Errors) >= 1) =>
        /\ status = completed.status
        /\ aborted = completed.aborted
        /\ Errors = completed.Errors
        /\ panicking = NoPanic
        /\ outerErr = NilValue
        /\ Len(CriticalCalls) = 0
        /\ (Done /\ ~onlyPanics) => Len(ErrorCalls) = Len(Errors)
        /\ (Done /\ completed.how = "abort" /\ completed.status = StatusBadRequest) =>
              status = 400

C8_Witness ==
    /\ Done
    /\ ~onlyPanics
    /\ completed.how = "abort"
    /\ completed.status = StatusBadRequest
    /\ Len(Errors) = 2
    /\ Len(ErrorCalls) = 2
    /\ status = 400

C10_ReportsOnlyAfterCompletion ==
    /\ pc \in { "start", "handler" } => calls = << >>
    /\ Len(ErrorCalls) <= Len(completed.Errors)
    /\ \A i \in 1 .. Len(ErrorCalls) : ErrorCalls[i].err = completed.Errors[i].Err
    /\ (Done /\ ~onlyPanics) => Len(ErrorCalls) = Len(completed.Errors)

C10_Witness ==
    /\ Done
    /\ ~onlyPanics
    /\ completed.how = "abort"
    /\ Len(completed.Errors) = 2
    /\ completed.Errors[1].Err # completed.Errors[2].Err
    /\ Len(ErrorCalls) = 2

====
